---- MODULE Spec2Model ----
(***************************************************************************)
(* Model of the streaming chat client of CKSF/RAGBased_Chat:               *)
(*   - ChatInterface (per-mode histories, inputs, grades, loading flags,   *)
(*     handleSubmit and its updateLastMessage closure),                    *)
(*   - api.streamMessage / api.streamLessonPlan (the buffered reader that  *)
(*     frames blank-line-delimited records and dispatches stream events),  *)
(*   - MessageBubble (the grouping of a Turn's sources into evidence       *)
(*     cards),                                                             *)
(*   - the server (Context Manager, Retriever, Session Orchestrator), as   *)
(*     its design describes it.                                            *)
(*                                                                         *)
(* Text is a sequence of one-character strings.  An optional value         *)
(* (a field that may be `undefined`) is <<>> when absent and <<v>> when    *)
(* present.  React state updates are all functional (prev => next) and are *)
(* applied in the order they are queued, so the model commits them where   *)
(* the code queues them.                                                   *)
(***************************************************************************)
EXTENDS Integers, Sequences, FiniteSets, TLC

\* mode, histories, loadingStates, inputs, grades: the useState cells of
\* ChatInterface.  req: per mode, the handleSubmit call in progress (or the
\* last one finished).  submits: number of submits accepted since Init.
\* server: per mode, the orchestrator's state for the request of that mode.
\* auth: the useState cells of AuthGate and its pending verify calls.
\* localStorage: the item "app_password".  sent: the call of sendMessage.
VARIABLES mode, histories, loadingStates, inputs, grades, req, submits, server,
          auth, localStorage, sent

vars == <<mode, histories, loadingStates, inputs, grades, req, submits, server,
          auth, localStorage, sent>>

\* ------------------------------------------------------------------ bounds
\* Longest stream (in records) the reader specification draws.
MaxRecs == 2
\* Size (in characters) of a partial transport read in the two-mode specification.
UiChunk == 13
\* Accepted submits per page session.
MaxSubmits == 2
\* Longest sources list the citation specification draws.
MaxCites == 3
\* Longest ranked hit list the Passage Index returns.
MaxHits == 3
\* Most thought and token events of one generation.
MaxEmits == 2
\* Most finished user/assistant pairs of a conversation before a submit.
MaxPairs == 6

\* ------------------------------------------------------------- basic values
Modes == {"chat", "lesson"}

\* A subset of GRADES; the first entry is the initial grade of both modes.
GRADES == {"general", "primary"}

NL == "\n"

None == <<>>

Some(v) == <<v>>

IsSome(o) == Len(o) > 0

\* Values the user can type into the input box.
InputTexts == {<<>>, <<" ", "q">>}

\* Elements of a sources list, each written as one character of the
\* modelled JSON text.
CiteCodes == {"S", "A0", "A1", "B", "71"}

\* ------------------------------------------------------------------- trim
RECURSIVE TrimLeft(_)
TrimLeft(s) == IF s # <<>> /\ Head(s) = " " THEN TrimLeft(Tail(s)) ELSE s

RECURSIVE TrimRight(_)
TrimRight(s) ==
    IF s # <<>> /\ s[Len(s)] = " " THEN TrimRight(SubSeq(s, 1, Len(s) - 1)) ELSE s

trim(s) == TrimRight(TrimLeft(s))

\* ------------------------------------------------------------ wire format
\* The six characters every event record starts with.
Prefix == <<"d", "a", "t", "a", ":", " ">>

\* The record delimiter (a blank line).
Delimiter == <<NL, NL>>

\* JSON text of an event is modelled as "{" type-character payload "}".
TypeChars == {"h", "t", "d", "e", "u"}

TypeOfChar(c) ==
    CASE c = "h" -> "thought"
      [] c = "t" -> "token"
      [] c = "d" -> "done"
      [] c = "e" -> "error"
      [] OTHER   -> "ping"

CharOfType(t) ==
    CASE t = "thought" -> "h"
      [] t = "token"   -> "t"
      [] t = "done"    -> "d"
      [] t = "error"   -> "e"
      [] OTHER         -> "u"

Event(t, d) == [k |-> "event", type |-> t, data |-> d]

\* Records a stream may carry: the four event types, an event of a type the
\* client does not know, a record whose JSON is cut short, and a record
\* without the data prefix.
Records ==
    { Event("token", <<"a">>), Event("token", <<"c">>), Event("thought", <<"b">>),
      Event("done", <<"S">>), Event("done", <<>>),
      Event("error", <<"x">>), Event("ping", <<>>),
      [k |-> "badjson", type |-> "token", data |-> <<"a">>],
      [k |-> "noprefix", type |-> "token", data |-> <<"a">>] }

\* Text of one record as the server writes it (without the delimiter).
Encode(r) ==
    LET body == <<"{", CharOfType(r.type)>> \o r.data
                 \o (IF r.k = "badjson" THEN <<>> ELSE <<"}">>)
    IN  IF r.k = "noprefix" THEN body ELSE Prefix \o body

\* The bytes of a whole response body: every record followed by the
\* delimiter, except that the last one is left unterminated when ~term.
RECURSIVE Wire(_, _)
Wire(recs, term) ==
    IF recs = <<>> THEN <<>>
    ELSE IF Len(recs) = 1
         THEN Encode(recs[1]) \o (IF term THEN Delimiter ELSE <<>>)
         ELSE Encode(recs[1]) \o Delimiter \o Wire(Tail(recs), term)

\* ------------------------------------------------------- string functions
\* String.prototype.split("\n\n"): the pieces between successive delimiters,
\* found left to right; always at least one piece.
\* Index of the first delimiter of s at or after position i; 0 when none.
RECURSIVE indexOf(_, _)
indexOf(s, i) ==
    IF i >= Len(s) THEN 0
    ELSE IF s[i] = NL /\ s[i + 1] = NL THEN i
    ELSE indexOf(s, i + 1)

RECURSIVE split(_)
split(s) ==
    LET i == indexOf(s, 1)
    IN  IF i = 0 THEN <<s>>
        ELSE <<SubSeq(s, 1, i - 1)>> \o split(SubSeq(s, i + 2, Len(s)))

startsWith(s, p) == Len(s) >= Len(p) /\ SubSeq(s, 1, Len(p)) = p

slice(s, n) == SubSeq(s, n + 1, Len(s))

\* JSON.parse on the modelled JSON text: ok is FALSE where JSON.parse throws.
JSONparse(s) ==
    IF /\ Len(s) >= 2
       /\ s[1] = "{"
       /\ s[Len(s)] = "}"
       /\ \A i \in 2..(Len(s) - 1) : s[i] \notin {"{", "}"}
    THEN IF Len(s) >= 3 /\ s[2] \in TypeChars
         THEN [ok |-> TRUE, type |-> TypeOfChar(s[2]), data |-> SubSeq(s, 3, Len(s) - 1)]
         ELSE [ok |-> TRUE, type |-> "undefined", data |-> <<>>]
    ELSE [ok |-> FALSE, type |-> "undefined", data |-> <<>>]

\* -------------------------------------------------- stream event dispatch
\* A Partial<ChatMessage> handed to onUpdate.
Chunk(th, co, so) == [thoughts |-> th, content |-> co, sources |-> so]

\* What the body of the try block does with one parsed event: the sequence
\* of onUpdate calls it makes (none for an error event, whose throw is
\* caught by the catch of the same try, and none for an unknown type).
dispatch(event) ==
    CASE event.type = "thought" -> <<Chunk(Some(<<event.data>>), None, None)>>
      [] event.type = "token"   -> <<Chunk(None, Some(event.data), None)>>
      [] event.type = "done"    -> <<Chunk(None, None, Some(event.data))>>
      [] OTHER                  -> <<>>

\* One iteration of `for (const line of lines)`.
onLine(line) ==
    IF startsWith(line, Prefix)
    THEN LET event == JSONparse(slice(line, Len(Prefix)))
         IN  IF event.ok THEN dispatch(event) ELSE <<>>
    ELSE <<>>

\* The events the loop parsed successfully out of one line (at most one).
parsedOf(line) ==
    IF startsWith(line, Prefix)
    THEN LET event == JSONparse(slice(line, Len(Prefix)))
         IN  IF event.ok THEN <<[type |-> event.type, data |-> event.data]>> ELSE <<>>
    ELSE <<>>

\* Variant of forLines that walks the lines from the last to the first.
RECURSIVE forLinesReversed(_)
forLinesReversed(lines) ==
    IF lines = <<>> THEN <<>>
    ELSE forLinesReversed(Tail(lines)) \o onLine(Head(lines))

\* Variant of forLines without the try/catch around JSON.parse: the first
\* unparseable line ends the loop.
RECURSIVE forLinesAborting(_)
forLinesAborting(lines) ==
    IF lines = <<>> THEN <<>>
    ELSE IF /\ startsWith(Head(lines), Prefix)
            /\ ~JSONparse(slice(Head(lines), Len(Prefix))).ok
         THEN <<>>
         ELSE onLine(Head(lines)) \o forLinesAborting(Tail(lines))

\* The whole for loop: the onUpdate calls of all lines, in loop order.
RECURSIVE forLines(_)
forLines(lines) ==
    IF lines = <<>> THEN <<>> ELSE onLine(Head(lines)) \o forLines(Tail(lines))

RECURSIVE parsedLines(_)
parsedLines(lines) ==
    IF lines = <<>> THEN <<>> ELSE parsedOf(Head(lines)) \o parsedLines(Tail(lines))

\* Variant of linesOf that does not pop the trailing piece.
linesOfAll(buffer) == split(buffer)

\* Variant of restOf that keeps nothing for the next read.
restOfEmpty(buffer) == <<>>

\* `lines = buffer.split("\n\n"); buffer = lines.pop() || ""`.
linesOf(buffer) == LET pieces == split(buffer) IN SubSeq(pieces, 1, Len(pieces) - 1)

restOf(buffer) == LET pieces == split(buffer) IN pieces[Len(pieces)]

\* ------------------------------------------------------ updateLastMessage
Turn(r, c, t, s) == [role |-> r, content |-> c, thoughts |-> t, sources |-> s]

\* Variant of newThoughts that replaces the list instead of appending to it.
newThoughtsReplacing(last, chunk) ==
    IF IsSome(chunk.thoughts) THEN chunk.thoughts ELSE last.thoughts

\* chunk.thoughts ? [...(last.thoughts || []), ...chunk.thoughts] : last.thoughts
newThoughts(last, chunk) ==
    IF IsSome(chunk.thoughts)
    THEN Some((IF IsSome(last.thoughts) THEN last.thoughts[1] ELSE <<>>)
              \o chunk.thoughts[1])
    ELSE last.thoughts

\* Variant of newContent that replaces the content instead of appending to it.
newContentReplacing(last, chunk) ==
    IF IsSome(chunk.content) /\ chunk.content[1] # <<>>
    THEN chunk.content[1]
    ELSE last.content

\* chunk.content ? last.content + chunk.content : last.content
\* (an empty string is falsy).
newContent(last, chunk) ==
    IF IsSome(chunk.content) /\ chunk.content[1] # <<>>
    THEN last.content \o chunk.content[1]
    ELSE last.content

\* Variant of newSources that merges the carried list into the old one.
newSourcesMerging(last, chunk) ==
    IF IsSome(chunk.sources)
    THEN Some((IF IsSome(last.sources) THEN last.sources[1] ELSE <<>>)
              \o chunk.sources[1])
    ELSE last.sources

\* Variant of newSources without the fallback to the old list.
newSourcesOfChunk(last, chunk) == chunk.sources

\* Variant of newSources that takes an empty list for an absent one.
newSourcesNonEmpty(last, chunk) ==
    IF IsSome(chunk.sources) /\ chunk.sources[1] # <<>> THEN chunk.sources ELSE last.sources

\* chunk.sources || last.sources  (an array, also an empty one, is truthy).
newSources(last, chunk) ==
    IF IsSome(chunk.sources) THEN chunk.sources ELSE last.sources

\* Variant of updateLastMessage that updates every assistant Turn of the list.
updateEveryMessage(currentList, chunk) ==
    [i \in 1..Len(currentList) |->
        LET msg == currentList[i]
        IN  IF msg.role = "assistant"
            THEN [msg EXCEPT !.content = newContent(msg, chunk),
                             !.thoughts = newThoughts(msg, chunk),
                             !.sources = newSources(msg, chunk)]
            ELSE msg]

updateLastMessage(currentList, chunk) ==
    IF Len(currentList) = 0 THEN currentList
    ELSE LET last == currentList[Len(currentList)]
             others == SubSeq(currentList, 1, Len(currentList) - 1)
             updatedLast == [last EXCEPT !.content = newContent(last, chunk),
                                         !.thoughts = newThoughts(last, chunk),
                                         !.sources = newSources(last, chunk)]
         IN  others \o <<updatedLast>>

\* The onUpdate calls of one transport read, applied in call order.
RECURSIVE applyAll(_, _)
applyAll(currentList, chunks) ==
    IF chunks = <<>> THEN currentList
    ELSE applyAll(updateLastMessage(currentList, Head(chunks)), Tail(chunks))

\* `${error}` of the catch block after "\n\n", with "!" for the cross mark.
errorNotice(error) == <<NL, NL, "!">> \o error

\* Variant of appendError that puts the notice into a Turn of its own.
appendErrorTurn(currentList, error) ==
    IF Len(currentList) = 0 THEN currentList
    ELSE currentList \o <<Turn("assistant", errorNotice(error), None, None)>>

\* The setHistories of the catch block of handleSubmit.  On an empty list
\* `last` is undefined and `last.content` throws inside the updater, so no
\* new state is committed.
appendError(currentList, error) ==
    IF Len(currentList) = 0 THEN currentList
    ELSE LET last == currentList[Len(currentList)]
             others == SubSeq(currentList, 1, Len(currentList) - 1)
         IN  others \o <<[last EXCEPT !.content = last.content \o errorNotice(error)]>>

\* --------------------------------------------------------------- streams
RECURSIVE SeqsUpTo(_, _)
SeqsUpTo(S, n) ==
    IF n = 0 THEN {<<>>}
    ELSE LET shorter == SeqsUpTo(S, n - 1)
         IN  shorter \cup {Append(q, x) : q \in {r \in shorter : Len(r) = n - 1}, x \in S}

Stream(recs, term) == [recs |-> recs, term |-> term]

\* Response bodies of the reader specification: every sequence of at most
\* MaxRecs records, the last one terminated or not.
FrameStreams ==
    {Stream(r, t) : r \in SeqsUpTo(Records, MaxRecs), t \in BOOLEAN}

\* Response bodies of the two-mode specification.
UiStreams ==
    { Stream(<<Event("thought", <<"b">>), Event("token", <<"a">>),
               Event("done", <<"S">>)>>, TRUE),
      Stream(<<Event("token", <<"a">>), Event("error", <<"x">>)>>, TRUE) }

\* Response bodies of the citation specification: one done event carrying
\* every list of at most MaxCites sources.
CiteStreams ==
    {Stream(<<Event("done", c)>>, TRUE) : c \in SeqsUpTo(CiteCodes, MaxCites)}

\* ---------------------------------------- MessageBubble: sources footer
\* The JSON value an element of a sources list stands for: a citation
\* object {source, page?} or a bare string (the older form of a source).
citation(code) ==
    CASE code = "A0" -> [k |-> "object", source |-> "A", page |-> Some(0)]
      [] code = "A1" -> [k |-> "object", source |-> "A", page |-> Some(1)]
      [] code = "B"  -> [k |-> "object", source |-> "B", page |-> None]
      [] code = "71" -> [k |-> "object", source |-> "7", page |-> Some(1)]
      [] OTHER       -> [k |-> "string", source |-> code, page |-> None]

\* `if (s.page)`: a page that is absent, 0 or "" is falsy.
truthy(page) == IsSome(page) /\ page[1] # 0

\* Property names that are canonical array indices; Object.entries lists
\* them before all other names.
isArrayIndex(key) == key \in {"7"}

\* The property names of groupedSources in the order the forEach creates
\* them: one per distinct source, at its first occurrence.
RECURSIVE insertionOrder(_, _)
insertionOrder(sources, keys) ==
    IF sources = <<>> THEN keys
    ELSE LET s == citation(Head(sources)).source
         IN  insertionOrder(Tail(sources),
                            IF \E i \in 1..Len(keys) : keys[i] = s
                            THEN keys ELSE Append(keys, s))

\* groupedSources[key].pages once the forEach is over.
pagesOf(sources, key) ==
    {citation(sources[i]).page[1] :
        i \in {j \in 1..Len(sources) :
                  /\ citation(sources[j]).k = "object"
                  /\ citation(sources[j]).source = key
                  /\ truthy(citation(sources[j]).page)}}

\* Object.entries(groupedSources): array-index names first (in ascending
\* order; the model has one such name), then the others in insertion order.
ObjectEntries(keys) ==
    SelectSeq(keys, isArrayIndex) \o SelectSeq(keys, LAMBDA key : ~isArrayIndex(key))

\* The evidence cards of a sources list, in display order.
groupedSources(sources) ==
    LET keys == ObjectEntries(insertionOrder(sources, <<>>))
    IN  [i \in 1..Len(keys) |-> [source |-> keys[i], pages |-> pagesOf(sources, keys[i])]]

\* ------------------------------------------------------------ server side
\* The server is described by the README and the design of its components:
\* Context Manager, Retriever and Session Orchestrator.

\* Windowing policy: the last N_TURNS user/assistant pairs are kept.
N_TURNS == 5

min(a, b) == IF a <= b THEN a ELSE b

\* The last n messages of a history (all of it when it is shorter).
lastN(history, n) == SubSeq(history, Len(history) - min(Len(history), n) + 1, Len(history))

\* Variant of window that only caps the length.
windowCapped(history) == lastN(history, 2 * N_TURNS)

\* Context Manager, windowing: at most the last 2 * N_TURNS messages; when
\* the cut falls between a user message and its answer, the answer (the
\* older half-pair) is dropped too.
window(history) ==
    LET capped == lastN(history, 2 * N_TURNS)
    IN  IF /\ Len(capped) < Len(history)
           /\ capped # <<>>
           /\ capped[1].role = "assistant"
        THEN Tail(capped)
        ELSE capped

\* The history the Context Manager works with: none in lesson mode.
contextWindow(m, body) == IF m = "chat" THEN window(body.history) ELSE <<>>

\* The raw query of a request.
rawQuery(m, body) == IF m = "chat" THEN body.message ELSE body.topic

\* Context Manager, rewriting: only in chat mode, only with a non-empty
\* history and a query judged context-dependent.
needsRewrite(m, history, dependent) == m = "chat" /\ history # <<>> /\ dependent

\* The self-contained restatement the lite model returns for a query.
rewritten(raw) == <<"r">> \o raw

\* Outcomes of the lite rewrite call.
RewriteOutcomes == {"ok", "error", "timeout"}

\* Variant of forwarded that gives up the query when the rewrite failed.
forwardedOrNothing(raw, outcome) == IF outcome = "ok" THEN rewritten(raw) ELSE <<>>

\* The query sent to the Retriever after the rewrite call resolved: the
\* restatement, or the raw query verbatim when the call failed or timed out.
forwarded(raw, outcome) == IF outcome = "ok" THEN rewritten(raw) ELSE raw

\* Passage Index and Document Store: child chunks, the parent each refers
\* to, and the parents the Document Store can deliver.
ChildChunks == {"c1", "c2", "c3", "c4"}

ParentOf(c) ==
    CASE c = "c1" -> "P1"
      [] c = "c2" -> "P2"
      [] c = "c3" -> "P1"
      [] OTHER    -> "P3"

Resolvable(p) == p \in {"P1", "P2"}

\* Variant of retrieveFrom that promotes every hit, seen before or not.
RECURSIVE retrieveEvery(_, _)
retrieveEvery(hits, seen) ==
    IF hits = <<>> THEN <<>>
    ELSE LET p == ParentOf(Head(hits))
         IN  IF ~Resolvable(p) THEN retrieveEvery(Tail(hits), seen)
             ELSE <<p>> \o retrieveEvery(Tail(hits), seen \cup {p})

\* Retriever, stage 2: the hits in rank order, each promoted to its parent;
\* a parent seen before and a parent whose lookup fails are skipped.
RECURSIVE retrieveFrom(_, _)
retrieveFrom(hits, seen) ==
    IF hits = <<>> THEN <<>>
    ELSE LET p == ParentOf(Head(hits))
         IN  IF p \in seen \/ ~Resolvable(p) THEN retrieveFrom(Tail(hits), seen)
             ELSE <<p>> \o retrieveFrom(Tail(hits), seen \cup {p})

retrieve(hits) == retrieveFrom(hits, {})

\* Ranked hit lists of the Passage Index.
HitLists == SeqsUpTo(ChildChunks, MaxHits)

\* The Citation of a parent chunk.
CitationOf(p) == IF p = "P1" THEN "A1" ELSE "B"

\* The Citation list of a done event: one per passage, in retrieval order.
citations(passages) == [i \in 1..Len(passages) |-> CitationOf(passages[i])]

\* Non-terminal events the Generation Service may produce.
GenerationEvents == {Event("thought", <<"b">>), Event("token", <<"a">>)}

\* Stages of a request that are over.
Terminal == {"COMPLETED", "FAILED"}

\* Orchestrator state of a mode before any request.
NoServer ==
    [stage |-> "IDLE", query |-> <<>>, window |-> <<>>, rewrite |-> "none",
     attempts |-> 0, hits |-> <<>>, passages |-> <<>>, events |-> <<>>,
     failedAt |-> "none", log |-> <<>>]

\* ------------------------------------------------------- access control
\* Passwords a user may type or have stored, and the one the server is
\* configured with.
Passwords == {"p", "w"}

ValidPassword == "p"

\* The server's access check of a token (the X-Access-Token header).
authorized(token) == token = ValidPassword

\* Variant of verifyPassword that takes a failed call for a success.
verifyPasswordOptimistic(pwd, network) == network = "error" \/ authorized(pwd)

\* verifyPassword: res.ok of the verify call, false when the fetch throws.
verifyPassword(pwd, network) == network = "ok" /\ authorized(pwd)

\* getAuthHeader: `localStorage.getItem("app_password") || ""`.
getAuthHeader(storage) == IF IsSome(storage) THEN storage[1] ELSE ""

\* AuthGate before any login.  onLoad: the saved password whose verification
\* (started by the effect on load) is pending.  login: the password whose
\* verification handleLogin awaits.  saved, verified, onLoadFailed record
\* what happened: the password found in storage on load, the passwords a
\* verify call answered OK for, and whether the verification on load failed.
Locked ==
    [isAuthenticated |-> FALSE, password |-> "", isLoading |-> FALSE,
     error |-> FALSE, onLoad |-> None, login |-> None,
     saved |-> None, verified |-> {}, onLoadFailed |-> FALSE]

\* AuthGate after a login with the valid password.
Unlocked ==
    [Locked EXCEPT !.isAuthenticated = TRUE, !.password = ValidPassword,
                   !.verified = {ValidPassword}]

\* ---------------------------------------------------------- sendMessage
\* HTTP statuses and body texts of a response to sendMessage.
Statuses == {200, 401, 500}

BodyTexts == {"{error:E}", "{error:}", "{reply:R}", "null", "oops"}

\* JSON.parse of a body text: an object (with or without an error field),
\* null, or a SyntaxError (ok is FALSE).
JSONparseText(text) ==
    CASE text = "{error:E}" -> [ok |-> TRUE, k |-> "object", error |-> Some("E")]
      [] text = "{error:}"  -> [ok |-> TRUE, k |-> "object", error |-> Some("")]
      [] text = "{reply:R}" -> [ok |-> TRUE, k |-> "object", error |-> None]
      [] text = "null"      -> [ok |-> TRUE, k |-> "null", error |-> None]
      [] OTHER              -> [ok |-> FALSE, k |-> "none", error |-> None]

\* res.ok
ok(status) == status \in 200..299

\* `await res.text().catch(() => "No error details")`.
textOrDefault(text, readable) == IF readable THEN text ELSE "No error details"

\* Variant of errorTextOf that reports only the default text.
errorTextDefault(text, readable) == "No error details"

\* The errorText of the thrown error: json.error when JSON.parse succeeds
\* on an object whose error field is truthy; the text itself when the parse
\* throws, when json is null (reading json.error throws) and when the field
\* is absent or falsy.
errorTextOf(text, readable) ==
    LET errorText == textOrDefault(text, readable)
        json == JSONparseText(errorText)
    IN  IF json.ok /\ json.k = "object" /\ IsSome(json.error) /\ json.error[1] # ""
        THEN json.error[1]
        ELSE errorText

\* What a call of sendMessage ends with once the response is there.
sendMessageResult(status, text, readable) ==
    IF ~ok(status)
    THEN [k |-> "throws", error |-> <<"API Error", status, errorTextOf(text, readable)>>]
    ELSE IF readable /\ JSONparseText(text).ok
         THEN [k |-> "returns", value |-> JSONparseText(text)]
         ELSE [k |-> "throws", error |-> <<"res.json">>]

\* Arguments of sendMessage.
SendMessages == {<<"q">>, <<"p">>}

SendHistories == {<<>>, <<Turn("user", <<"q">>, None, None), Turn("assistant", <<"a">>, None, None)>>}

\* No call of sendMessage yet.
NoCall ==
    [pc |-> "idle", headers |-> "", body |-> None, status |-> 0, text |-> "",
     readable |-> TRUE, result |-> None]

\* ------------------------------------------------------- component state
\* A request slot of a mode: where its handleSubmit call stands, the part
\* of the response body not yet read, the reader's buffer, and a record of
\* what the call has done so far (events parsed, onUpdate calls made, the
\* error its catch block reported).
NoRequest ==
    [pc |-> "idle", headers |-> "", body |-> None, wire |-> <<>>, buffer |-> <<>>,
     recs |-> <<>>, term |-> TRUE,
     observed |-> <<>>, applied |-> <<>>, error |-> None]

\* Variant of targetMode that keys an update by the mode active when it runs.
targetModeActive(currentMode, active) == active

\* `const currentMode = mode` at submit time; every later update is keyed
\* by the captured value, not by the mode active when the update runs.
targetMode(currentMode, active) == currentMode

Init ==
    /\ mode = "chat"
    /\ histories = [m \in Modes |-> <<>>]
    /\ loadingStates = [m \in Modes |-> FALSE]
    /\ inputs = [m \in Modes |-> <<>>]
    /\ grades = [m \in Modes |-> "general"]
    /\ req = [m \in Modes |-> NoRequest]
    /\ submits = 0
    /\ server = [m \in Modes |-> NoServer]
    /\ auth = Unlocked
    /\ localStorage = Some(ValidPassword)
    /\ sent = NoCall

\* onClick of the two header buttons.
setMode(m) ==
    /\ mode # m
    /\ mode' = m
    /\ UNCHANGED <<histories, loadingStates, inputs, grades, req, submits, server, auth, localStorage, sent>>

\* onChange of the text input.
setInput(v) ==
    /\ inputs[mode] # v
    /\ inputs' = [inputs EXCEPT ![mode] = v]
    /\ UNCHANGED <<mode, histories, loadingStates, grades, req, submits, server, auth, localStorage, sent>>

\* onChange of the grade selector.
setGrade(g) ==
    /\ grades[mode] # g
    /\ grades' = [grades EXCEPT ![mode] = g]
    /\ UNCHANGED <<mode, histories, loadingStates, inputs, req, submits, server, auth, localStorage, sent>>

\* Variant of handleSubmit whose lesson request carries the lesson history.
handleSubmitWithHistory(m) ==
    /\ mode = m
    /\ submits < MaxSubmits
    /\ trim(inputs[m]) # <<>>
    /\ ~loadingStates[m]
    /\ LET userMsg == trim(inputs[m])
           userMessage == Turn("user", userMsg, None, None)
           placeholder == Turn("assistant", <<>>, Some(<<>>), None)
           body == IF m = "chat"
                   THEN [message |-> userMsg,
                         history |-> histories["chat"] \o <<userMessage>>]
                   ELSE [topic |-> userMsg, grade |-> grades[m],
                         history |-> histories[m] \o <<userMessage>>]
       IN  /\ inputs' = [inputs EXCEPT ![m] = <<>>]
           /\ loadingStates' = [loadingStates EXCEPT ![m] = TRUE]
           /\ histories' = [histories EXCEPT ![m] = @ \o <<userMessage, placeholder>>]
           /\ req' = [req EXCEPT ![m] = [NoRequest EXCEPT !.pc = "fetch",
                                                          !.headers = getAuthHeader(localStorage),
                                                          !.body = Some(body)]]
    /\ submits' = submits + 1
    /\ UNCHANGED <<mode, grades, server, auth, localStorage, sent>>

\* Variant of handleSubmit that does not look at the loading flag.
handleSubmitWhileLoading(m) ==
    /\ mode = m
    /\ submits < MaxSubmits
    /\ trim(inputs[m]) # <<>>
    /\ LET userMsg == trim(inputs[m])
           userMessage == Turn("user", userMsg, None, None)
           placeholder == Turn("assistant", <<>>, Some(<<>>), None)
           body == IF m = "chat"
                   THEN [message |-> userMsg,
                         history |-> histories["chat"] \o <<userMessage>>]
                   ELSE [topic |-> userMsg, grade |-> grades[m]]
       IN  /\ inputs' = [inputs EXCEPT ![m] = <<>>]
           /\ loadingStates' = [loadingStates EXCEPT ![m] = TRUE]
           /\ histories' = [histories EXCEPT ![m] = @ \o <<userMessage, placeholder>>]
           /\ req' = [req EXCEPT ![m] = [NoRequest EXCEPT !.pc = "fetch",
                                                          !.headers = getAuthHeader(localStorage),
                                                          !.body = Some(body)]]
    /\ submits' = submits + 1
    /\ UNCHANGED <<mode, grades, server, auth, localStorage, sent>>

\* Variant of handleSubmit that sends the chat list as it is after the submit,
\* the placeholder included.
handleSubmitSendingPlaceholder(m) ==
    /\ mode = m
    /\ submits < MaxSubmits
    /\ trim(inputs[m]) # <<>>
    /\ ~loadingStates[m]
    /\ LET userMsg == trim(inputs[m])
           userMessage == Turn("user", userMsg, None, None)
           placeholder == Turn("assistant", <<>>, Some(<<>>), None)
           body == IF m = "chat"
                   THEN [message |-> userMsg,
                         history |-> histories["chat"] \o <<userMessage, placeholder>>]
                   ELSE [topic |-> userMsg, grade |-> grades[m]]
       IN  /\ inputs' = [inputs EXCEPT ![m] = <<>>]
           /\ loadingStates' = [loadingStates EXCEPT ![m] = TRUE]
           /\ histories' = [histories EXCEPT ![m] = @ \o <<userMessage, placeholder>>]
           /\ req' = [req EXCEPT ![m] = [NoRequest EXCEPT !.pc = "fetch",
                                                          !.headers = getAuthHeader(localStorage),
                                                          !.body = Some(body)]]
    /\ submits' = submits + 1
    /\ UNCHANGED <<mode, grades, server, auth, localStorage, sent>>

\* handleSubmit up to its first await (the fetch inside the api call).
handleSubmit(m) ==
    /\ mode = m
    /\ submits < MaxSubmits
    /\ trim(inputs[m]) # <<>>
    /\ ~loadingStates[m]
    /\ LET userMsg == trim(inputs[m])
           userMessage == Turn("user", userMsg, None, None)
           placeholder == Turn("assistant", <<>>, Some(<<>>), None)
           body == IF m = "chat"
                   THEN [message |-> userMsg,
                         history |-> histories["chat"] \o <<userMessage>>]
                   ELSE [topic |-> userMsg, grade |-> grades[m]]
       IN  /\ inputs' = [inputs EXCEPT ![m] = <<>>]
           /\ loadingStates' = [loadingStates EXCEPT ![m] = TRUE]
           /\ histories' = [histories EXCEPT ![m] = @ \o <<userMessage, placeholder>>]
           /\ req' = [req EXCEPT ![m] = [NoRequest EXCEPT !.pc = "fetch",
                                                          !.headers = getAuthHeader(localStorage),
                                                          !.body = Some(body)]]
    /\ submits' = submits + 1
    /\ UNCHANGED <<mode, grades, server, auth, localStorage, sent>>

\* Variant of throws without the finally block: the loading flag stays set.
throwsWithoutFinally(m, error) ==
    /\ histories' = [histories EXCEPT ![targetMode(m, mode)] = appendError(@, error)]
    /\ req' = [req EXCEPT ![m].pc = "failed", ![m].error = Some(error)]
    /\ UNCHANGED <<mode, loadingStates, inputs, grades, submits, server, auth, localStorage, sent>>

\* catch and finally of handleSubmit after the awaited api call threw.
throws(m, error) ==
    /\ histories' = [histories EXCEPT ![targetMode(m, mode)] = appendError(@, error)]
    /\ loadingStates' = [loadingStates EXCEPT ![m] = FALSE]
    /\ req' = [req EXCEPT ![m].pc = "failed", ![m].error = Some(error)]
    /\ UNCHANGED <<mode, inputs, grades, submits, server, auth, localStorage, sent>>

\* fetch rejects (network error): the api call throws.
fetchRejects(m) ==
    /\ req[m].pc = "fetch"
    /\ throws(m, <<"F">>)

\* fetch resolves with a response that has no body: "No response body".
noBody(m) ==
    /\ req[m].pc = "fetch"
    /\ throws(m, <<"B">>)

\* fetch resolves with a body; the reader, decoder and buffer are set up.
\* handleSubmit hands its updateLastMessage closure to the api call as the
\* onUpdate callback (for chat the call also passes the grade, which the
\* streamMessage under src/ does not declare; the reader loop of
\* streamMessage and streamLessonPlan is the same, and the model uses it
\* with onUpdate = updateLastMessage for both modes).  The decoder runs in
\* streaming mode, so the text read is the text sent, however it is cut.
fetchResolves(m, streams) ==
    /\ req[m].pc = "fetch"
    /\ \E st \in streams :
          req' = [req EXCEPT ![m].pc = "read",
                             ![m].wire = Wire(st.recs, st.term),
                             ![m].recs = st.recs,
                             ![m].term = st.term]
    /\ UNCHANGED <<mode, histories, loadingStates, inputs, grades, submits, server, auth, localStorage, sent>>

\* One pass of the while loop: reader.read() yields the next n characters,
\* which are appended to the buffer, framed and dispatched.
readChunk(m, n) ==
    /\ req[m].pc = "read"
    /\ n \in 1..Len(req[m].wire)
    /\ LET value == SubSeq(req[m].wire, 1, n)
           buffer == req[m].buffer \o value
           lines == linesOf(buffer)
           chunks == forLines(lines)
       IN  /\ histories' = [histories EXCEPT ![targetMode(m, mode)] = applyAll(@, chunks)]
           /\ req' = [req EXCEPT ![m].wire = SubSeq(@, n + 1, Len(@)),
                                 ![m].buffer = restOf(buffer),
                                 ![m].observed = @ \o parsedLines(lines),
                                 ![m].applied = @ \o chunks]
    /\ UNCHANGED <<mode, loadingStates, inputs, grades, submits, server, auth, localStorage, sent>>

\* Variant of readDone that dispatches what is left in the buffer as a last
\* line before the loop breaks.
readDoneFlushing(m) ==
    /\ req[m].pc = "read"
    /\ req[m].wire = <<>>
    /\ LET lines == <<req[m].buffer>>
           chunks == forLines(lines)
       IN  /\ histories' = [histories EXCEPT ![targetMode(m, mode)] = applyAll(@, chunks)]
           /\ req' = [req EXCEPT ![m].pc = "ended",
                                 ![m].buffer = <<>>,
                                 ![m].observed = @ \o parsedLines(lines),
                                 ![m].applied = @ \o chunks]
    /\ loadingStates' = [loadingStates EXCEPT ![m] = FALSE]
    /\ UNCHANGED <<mode, inputs, grades, submits, server, auth, localStorage, sent>>

\* reader.read() reports done: the loop breaks, the api call returns and the
\* finally block of handleSubmit clears the loading flag.
readDone(m) ==
    /\ req[m].pc = "read"
    /\ req[m].wire = <<>>
    /\ req' = [req EXCEPT ![m].pc = "ended"]
    /\ loadingStates' = [loadingStates EXCEPT ![m] = FALSE]
    /\ UNCHANGED <<mode, histories, inputs, grades, submits, server, auth, localStorage, sent>>

\* reader.read() rejects (connection lost): the api call throws.
readRejects(m) ==
    /\ req[m].pc = "read"
    /\ throws(m, <<"R">>)

\* Sizes of a transport read in the two-mode specification: the rest of the
\* body, or UiChunk characters of it.
UiReads(m) == {Len(req[m].wire), UiChunk}

\* --------------------------------------------------- orchestrator steps
clientVars ==
    <<mode, histories, loadingStates, inputs, grades, req, submits, auth, localStorage, sent>>

\* The access check, made first: a request without the valid token is
\* answered as unauthorized and enters no stage.
entryStage(token) == IF authorized(token) THEN "RECEIVED" ELSE "UNAUTHORIZED"

\* The request of mode m has reached the orchestrator.
receive(m) ==
    /\ req[m].pc = "fetch"
    /\ server[m].stage = "IDLE"
    /\ server' = [server EXCEPT ![m] = [NoServer EXCEPT !.stage = entryStage(req[m].headers)]]
    /\ UNCHANGED clientVars

\* RECEIVED -> CONTEXT_PREPARED, or the suspension at the lite rewrite call.
\* dependent: whether the query is judged context-dependent.
prepareContext(m, dependent) ==
    /\ server[m].stage = "RECEIVED"
    /\ LET body == req[m].body[1]
           history == contextWindow(m, body)
       IN  server' = [server EXCEPT ![m] =
               IF needsRewrite(m, history, dependent)
               THEN [@ EXCEPT !.stage = "REWRITING",
                              !.window = history,
                              !.attempts = @ + 1,
                              !.log = Append(@, "rewrite")]
               ELSE [@ EXCEPT !.stage = "CONTEXT_PREPARED",
                              !.window = history,
                              !.query = rawQuery(m, body),
                              !.log = Append(@, "context")]]
    /\ UNCHANGED clientVars

\* The lite rewrite call resolves: with a restatement, an error or a timeout.
rewriteResolves(m, outcome) ==
    /\ server[m].stage = "REWRITING"
    /\ server' = [server EXCEPT ![m].stage = "CONTEXT_PREPARED",
                                ![m].rewrite = outcome,
                                ![m].query = forwarded(rawQuery(m, req[m].body[1]), outcome),
                                ![m].log = Append(@, "context")]
    /\ UNCHANGED clientVars

\* The Retriever is invoked with the prepared query.
startRetrieval(m) ==
    /\ server[m].stage = "CONTEXT_PREPARED"
    /\ server' = [server EXCEPT ![m].stage = "RETRIEVING",
                                ![m].log = Append(@, "retrieval")]
    /\ UNCHANGED clientVars

\* CONTEXT_PREPARED -> RETRIEVED: the index answered with a ranked hit list.
retrievalCompletes(m, hits) ==
    /\ server[m].stage = "RETRIEVING"
    /\ server' = [server EXCEPT ![m].stage = "RETRIEVED",
                                ![m].hits = hits,
                                ![m].passages = retrieve(hits),
                                ![m].log = Append(@, "retrieved")]
    /\ UNCHANGED clientVars

\* Variant of mayGenerate that does not wait for the Retriever.
mayGenerateEarly(stage) == stage \in {"CONTEXT_PREPARED", "RETRIEVING", "RETRIEVED"}

\* The stage from which the Generation Service is invoked.
mayGenerate(stage) == stage = "RETRIEVED"

\* RETRIEVED -> GENERATING.
startGeneration(m) ==
    /\ mayGenerate(server[m].stage)
    /\ server' = [server EXCEPT ![m].stage = "GENERATING",
                                ![m].log = Append(@, "generation")]
    /\ UNCHANGED clientVars

\* A generation event is relayed as a StreamEvent.
emit(m, e) ==
    /\ server[m].stage = "GENERATING"
    /\ Len(server[m].events) < MaxEmits
    /\ server' = [server EXCEPT ![m].events = Append(@, e),
                                ![m].log = Append(@, "event")]
    /\ UNCHANGED clientVars

\* GENERATING -> COMPLETED: one done event with the Citation list.
complete(m) ==
    /\ server[m].stage = "GENERATING"
    /\ server' = [server EXCEPT ![m].stage = "COMPLETED",
                                ![m].events = Append(@, Event("done", citations(server[m].passages)))]
    /\ UNCHANGED clientVars

\* A stage fails (Retriever or Generation Service): one error event.
fail(m) ==
    /\ server[m].stage \in {"RETRIEVING", "GENERATING"}
    /\ server' = [server EXCEPT ![m].stage = "FAILED",
                                ![m].failedAt = server[m].stage,
                                ![m].events = Append(@, Event("error", <<"x">>))]
    /\ UNCHANGED clientVars

\* The client's fetch resolves with the event stream of the request (here
\* once the orchestrator has terminated it).
respond(m) ==
    /\ server[m].stage \in Terminal
    /\ fetchResolves(m, {Stream(server[m].events, TRUE)})

\* The request of mode m was answered as unauthorized: the client's fetch
\* resolves with a JSON error body, which is not an event stream.
UnauthorizedBody ==
    Stream(<<[k |-> "noprefix", type |-> "error", data |-> <<"x">>]>>, FALSE)

respondUnauthorized(m) ==
    /\ server[m].stage = "UNAUTHORIZED"
    /\ fetchResolves(m, {UnauthorizedBody})

\* -------------------------------------------------------------- AuthGate
chatVars == <<mode, histories, loadingStates, inputs, grades, req, submits, server, sent>>

\* onChange of the password input (disabled while isLoading).
setPassword(v) ==
    /\ ~auth.isAuthenticated
    /\ ~auth.isLoading
    /\ auth.password # v
    /\ auth' = [auth EXCEPT !.password = v]
    /\ UNCHANGED <<localStorage, chatVars>>

\* handleLogin up to its await (the button is disabled without a password
\* and while isLoading).
handleLogin ==
    /\ ~auth.isAuthenticated
    /\ auth.password # ""
    /\ ~auth.isLoading
    /\ auth' = [auth EXCEPT !.error = FALSE, !.isLoading = TRUE,
                            !.login = Some(auth.password)]
    /\ UNCHANGED <<localStorage, chatVars>>

\* The verify call of handleLogin is over; network: whether the fetch got
\* an answer ("ok") or threw ("error").
loginVerified(network) ==
    /\ IsSome(auth.login)
    /\ LET pwd == auth.login[1]
           isValid == verifyPassword(pwd, network)
           answeredOk == network = "ok" /\ authorized(pwd)
       IN  /\ auth' = [auth EXCEPT !.isAuthenticated = @ \/ isValid,
                                   !.error = @ \/ ~isValid,
                                   !.isLoading = FALSE,
                                   !.login = None,
                                   !.verified = IF answeredOk THEN @ \cup {pwd} ELSE @]
           /\ localStorage' = IF isValid THEN Some(pwd) ELSE localStorage
    /\ UNCHANGED chatVars

\* The verify call of the effect on load is over.
onLoadVerified(network) ==
    /\ IsSome(auth.onLoad)
    /\ LET saved == auth.onLoad[1]
           isValid == verifyPassword(saved, network)
           answeredOk == network = "ok" /\ authorized(saved)
       IN  /\ auth' = [auth EXCEPT !.isAuthenticated = @ \/ isValid,
                                   !.onLoad = None,
                                   !.onLoadFailed = ~isValid,
                                   !.verified = IF answeredOk THEN @ \cup {saved} ELSE @]
           /\ localStorage' = IF isValid THEN localStorage ELSE None
    /\ UNCHANGED chatVars

\* ----------------------------------------------------------- sendMessage
pageVars == <<mode, histories, loadingStates, inputs, grades, req, submits, server, auth>>

\* sendMessage is called and awaits its fetch.
sendMessage(message, history) ==
    /\ sent.pc = "idle"
    /\ sent' = [NoCall EXCEPT !.pc = "fetch",
                              !.headers = getAuthHeader(localStorage),
                              !.body = Some([message |-> message, history |-> history])]
    /\ UNCHANGED <<localStorage, pageVars>>

\* The fetch rejects: the call throws what fetch threw.
sendRejects ==
    /\ sent.pc = "fetch"
    /\ sent' = [sent EXCEPT !.pc = "done",
                            !.result = Some([k |-> "throws", error |-> <<"fetch">>])]
    /\ UNCHANGED <<localStorage, pageVars>>

\* The fetch resolves with a response of some status.
sendResolves(status) ==
    /\ sent.pc = "fetch"
    /\ sent' = [sent EXCEPT !.pc = "response", !.status = status]
    /\ UNCHANGED <<localStorage, pageVars>>

\* The body of the response has been read, or reading it failed.
sendBodyRead(text, readable) ==
    /\ sent.pc = "response"
    /\ sent' = [sent EXCEPT !.pc = "done", !.text = text, !.readable = readable,
                            !.result = Some(sendMessageResult(sent.status, text, readable))]
    /\ UNCHANGED <<localStorage, pageVars>>

Next ==
    \/ \E m \in Modes : setMode(m)
    \/ \E v \in InputTexts : setInput(v)
    \/ \E g \in GRADES : setGrade(g)
    \/ \E m \in Modes : handleSubmit(m)
    \/ \E m \in Modes : fetchRejects(m)
    \/ \E m \in Modes : noBody(m)
    \/ \E m \in Modes : fetchResolves(m, UiStreams)
    \/ \E m \in Modes : \E n \in UiReads(m) : readChunk(m, n)
    \/ \E m \in Modes : readDone(m)
    \/ \E m \in Modes : readRejects(m)

Spec == Init /\ [][Next]_vars

\* The reader alone: one request in one mode, every stream of FrameStreams,
\* every cut.
NextFrame ==
    \/ (submits = 0 /\ \E v \in InputTexts : setInput(v))
    \/ (submits = 0 /\ handleSubmit("chat"))
    \/ fetchResolves("chat", FrameStreams)
    \/ \E n \in 1..Len(req["chat"].wire) : readChunk("chat", n)
    \/ readDone("chat")

SpecFrame == Init /\ [][NextFrame]_vars

\* The sources footer: one chat request answered by a done event with every
\* sources list of CiteStreams, read in one piece.
NextCite ==
    \/ (submits = 0 /\ \E v \in InputTexts : setInput(v))
    \/ (submits = 0 /\ handleSubmit("chat"))
    \/ fetchResolves("chat", CiteStreams)
    \/ readChunk("chat", Len(req["chat"].wire))
    \/ readDone("chat")

SpecCite == Init /\ [][NextCite]_vars

\* A fresh page: the user picks a mode, then types, (in lesson mode) picks a
\* grade, and submits once.
Fresh ==
    /\ submits = 0
    /\ inputs = [m \in Modes |-> <<>>]
    /\ grades = [m \in Modes |-> "general"]

\* Client and server: one request, in either mode, through the orchestrator
\* and back through the reader.
NextServer ==
    \/ (Fresh /\ \E m \in Modes : setMode(m))
    \/ (submits = 0 /\ \E v \in InputTexts : setInput(v))
    \/ (submits = 0 /\ mode = "lesson" /\ \E g \in GRADES : setGrade(g))
    \/ (submits = 0 /\ \E m \in Modes : handleSubmit(m))
    \/ \E m \in Modes : receive(m)
    \/ \E m \in Modes : \E dependent \in BOOLEAN : prepareContext(m, dependent)
    \/ \E m \in Modes : \E outcome \in RewriteOutcomes : rewriteResolves(m, outcome)
    \/ \E m \in Modes : startRetrieval(m)
    \/ \E m \in Modes : \E hits \in HitLists : retrievalCompletes(m, hits)
    \/ \E m \in Modes : startGeneration(m)
    \/ \E m \in Modes : \E e \in GenerationEvents : emit(m, e)
    \/ \E m \in Modes : complete(m)
    \/ \E m \in Modes : fail(m)
    \/ \E m \in Modes : respond(m)
    \/ \E m \in Modes : readChunk(m, Len(req[m].wire))
    \/ \E m \in Modes : readDone(m)

SpecServer == Init /\ [][NextServer]_vars

\* Conversations of at most k finished user/assistant pairs.
Answers == {<<"a">>, <<"c">>}

RECURSIVE Conversations(_)
Conversations(k) ==
    IF k = 0 THEN {<<>>}
    ELSE LET shorter == Conversations(k - 1)
         IN  shorter \cup
             {h \o <<Turn("user", <<"q">>, None, None),
                     Turn("assistant", c, Some(<<>>), None)>> :
                 h \in {x \in shorter : Len(x) = 2 * (k - 1)}, c \in Answers}

\* The chat mode after a conversation of finished requests.
InitWindow ==
    \E h \in Conversations(MaxPairs) :
        /\ mode = "chat"
        /\ histories = [m \in Modes |-> IF m = "chat" THEN h ELSE <<>>]
        /\ loadingStates = [m \in Modes |-> FALSE]
        /\ inputs = [m \in Modes |-> <<>>]
        /\ grades = [m \in Modes |-> "general"]
        /\ req = [m \in Modes |-> IF m = "chat" /\ h # <<>>
                                  THEN [NoRequest EXCEPT !.pc = "ended"]
                                  ELSE NoRequest]
        /\ submits = 0
        /\ server = [m \in Modes |-> NoServer]
        /\ auth = Unlocked
        /\ localStorage = Some(ValidPassword)
        /\ sent = NoCall

\* The next chat request of such a conversation, up to the prepared context.
NextWindow ==
    \/ (submits = 0 /\ \E v \in InputTexts : setInput(v))
    \/ (submits = 0 /\ handleSubmit("chat"))
    \/ receive("chat")
    \/ \E dependent \in BOOLEAN : prepareContext("chat", dependent)
    \/ \E outcome \in RewriteOutcomes : rewriteResolves("chat", outcome)

SpecWindow == InitWindow /\ [][NextWindow]_vars

\* The page on load: AuthGate locked, the stored password (if any) being
\* verified, ChatInterface not shown yet.
InitGate ==
    \E saved \in {None} \cup {Some(p) : p \in Passwords} :
        /\ mode = "chat"
        /\ histories = [m \in Modes |-> <<>>]
        /\ loadingStates = [m \in Modes |-> FALSE]
        /\ inputs = [m \in Modes |-> <<>>]
        /\ grades = [m \in Modes |-> "general"]
        /\ req = [m \in Modes |-> NoRequest]
        /\ submits = 0
        /\ server = [m \in Modes |-> NoServer]
        /\ auth = [Locked EXCEPT !.onLoad = saved, !.saved = saved]
        /\ localStorage = saved
        /\ sent = NoCall

\* AuthGate, and behind it one chat request up to the answer of the access
\* check and the client's reading of it.
NextGate ==
    \/ \E v \in Passwords \cup {""} : setPassword(v)
    \/ handleLogin
    \/ \E network \in {"ok", "error"} : loginVerified(network)
    \/ \E network \in {"ok", "error"} : onLoadVerified(network)
    \/ (auth.isAuthenticated /\ submits = 0 /\ \E v \in InputTexts : setInput(v))
    \/ (auth.isAuthenticated /\ submits = 0 /\ handleSubmit("chat"))
    \/ receive("chat")
    \/ respondUnauthorized("chat")
    \/ \E n \in 1..Len(req["chat"].wire) : readChunk("chat", n)
    \/ readDone("chat")

SpecGate == InitGate /\ [][NextGate]_vars

\* Calls of sendMessage and the responses they may get.
NextSend ==
    \/ \E message \in SendMessages : \E history \in SendHistories : sendMessage(message, history)
    \/ sendRejects
    \/ \E status \in Statuses : sendResolves(status)
    \/ \E text \in BodyTexts : \E readable \in BOOLEAN : sendBodyRead(text, readable)

SpecSend == Init /\ [][NextSend]_vars

\* Values typed into the input box of the submit specification: nothing,
\* blanks only, a blank before a letter.
SubmitTexts == {<<>>, <<" ">>, <<" ", "q">>}

\* Submits in both modes against requests that fail or stream one answer.
NextSubmit ==
    \/ \E m \in Modes : setMode(m)
    \/ \E v \in SubmitTexts : setInput(v)
    \/ \E m \in Modes : handleSubmit(m)
    \/ \E m \in Modes : fetchRejects(m)
    \/ \E m \in Modes : fetchResolves(m, {Stream(<<Event("token", <<"a">>)>>, TRUE)})
    \/ \E m \in Modes : readChunk(m, Len(req[m].wire))
    \/ \E m \in Modes : readDone(m)

SpecSubmit == Init /\ [][NextSubmit]_vars

\* The pending promise of the request of mode m settles otherwise than with
\* text: the fetch resolves or rejects, a read reports the end of the stream
\* or fails.
settles(m) ==
    \/ fetchRejects(m)
    \/ noBody(m)
    \/ fetchResolves(m, UiStreams)
    \/ readDone(m)
    \/ readRejects(m)

NextLive ==
    \/ \E m \in Modes : setMode(m)
    \/ \E v \in InputTexts : setInput(v)
    \/ \E m \in Modes : handleSubmit(m)
    \/ \E m \in Modes : readChunk(m, Len(req[m].wire))
    \/ \E m \in Modes : settles(m)

\* Requests whose transport does not hang: a pending fetch settles, and the
\* reads of a body end, with the end of the stream or with a failure; the
\* continuation of a settled promise is always run.
SpecLive == Init /\ [][NextLive]_vars /\ \A m \in Modes : WF_vars(settles(m))

\* ================================================================ claims
\* Helpers of the properties below.
lastTurn(m) == histories[m][Len(histories[m])]

Streaming(m) == req[m].pc \in {"read", "ended"}

RECURSIVE DataOf(_, _)
\* The data of the events of type t among evs, in order.
DataOf(evs, t) ==
    IF evs = <<>> THEN <<>>
    ELSE (IF Head(evs).type = t THEN <<Head(evs).data>> ELSE <<>>)
         \o DataOf(Tail(evs), t)

RECURSIVE Flatten(_)
Flatten(texts) ==
    IF texts = <<>> THEN <<>> ELSE Head(texts) \o Flatten(Tail(texts))

\* The events of evs from position i on.
From(evs, i) == SubSeq(evs, i, Len(evs))

\* C2. Token merge: while a stream is being read (and after it ended), the
\* content of the in-progress assistant Turn is the concatenation, in
\* arrival order, of the payloads of all token events parsed so far; each
\* token event appends its text and nothing is replaced or lost.
C2_TokenMerge ==
    \A m \in Modes :
        Streaming(m) =>
            lastTurn(m).content = Flatten(DataOf(req[m].observed, "token"))

C2_Witness ==
    /\ Streaming("chat")
    /\ Len(DataOf(req["chat"].observed, "token")) = 2
    /\ lastTurn("chat").content = <<"a", "c">>

\* C3. Thought merge: every step of the reader extends the reasoning-step
\* list of the in-progress Turn by exactly the thought events it parsed in
\* that step, one element per event, appended after the elements that were
\* there, which stay unchanged and in place.
C3_ThoughtAppend ==
    [][\A m \in Modes :
          (req[m].pc = "read" /\ req'[m].pc = "read") =>
              LET new == From(req'[m].observed, Len(req[m].observed) + 1)
              IN  /\ IsSome(lastTurn(m).thoughts)'
                  /\ lastTurn(m).thoughts[1]' =
                         lastTurn(m).thoughts[1] \o DataOf(new, "thought")]_vars

C3_Witness ==
    /\ Streaming("chat")
    /\ Len(DataOf(req["chat"].observed, "thought")) = 2
    /\ lastTurn("chat").thoughts = Some(<<(<<"b">>), (<<"b">>)>>)

\* C4. Done merge: once a done event has been parsed, the sources of the
\* Turn are exactly the list carried by the latest done event, whatever
\* sources the Turn had before, also when that list is empty.
C4_DoneReplaces ==
    \A m \in Modes :
        LET dones == DataOf(req[m].observed, "done")
        IN  (Streaming(m) /\ dones # <<>>) =>
                lastTurn(m).sources = Some(dones[Len(dones)])

C4_Witness ==
    /\ Streaming("chat")
    /\ DataOf(req["chat"].observed, "done") = <<(<<"S">>), (<<>>)>>
    /\ lastTurn("chat").sources = Some(<<>>)

\* Position of the first event of evs whose type is in types; 0 when none.
RECURSIVE FirstAt(_, _, _)
FirstAt(evs, types, i) ==
    IF i > Len(evs) THEN 0
    ELSE IF evs[i].type \in types THEN i
    ELSE FirstAt(evs, types, i + 1)

\* C5. Finalization: once a done event has been applied, the Turn is
\* immutable: it stays what the events up to and including that done event
\* made it, whatever arrives later on the same stream.
C5_ImmutableAfterDone ==
    \A m \in Modes :
        LET i == FirstAt(req[m].observed, {"done", "error"}, 1)
            upTo == SubSeq(req[m].observed, 1, i)
        IN  (Streaming(m) /\ i > 0 /\ req[m].observed[i].type = "done") =>
                lastTurn(m) = Turn("assistant",
                                   Flatten(DataOf(upTo, "token")),
                                   Some(DataOf(upTo, "thought")),
                                   Some(req[m].observed[i].data))

\* C6. Error event: once the stream has delivered an error event, the
\* request has failed (no later event of the stream is applied) and the
\* content of the Turn is the text streamed before the error event followed
\* by the error notice.
C6_ErrorEventFails ==
    \A m \in Modes :
        LET i == FirstAt(req[m].observed, {"done", "error"}, 1)
            before == SubSeq(req[m].observed, 1, i - 1)
        IN  (i > 0 /\ req[m].observed[i].type = "error") =>
                /\ req[m].pc = "failed"
                /\ lastTurn(m).content =
                       Flatten(DataOf(before, "token"))
                       \o errorNotice(req[m].observed[i].data)

\* ------------------------------------------- expected effect of a stream
\* The records of a body whose delimiter is part of the body.
Terminated(recs, term) ==
    IF term \/ recs = <<>> THEN recs ELSE SubSeq(recs, 1, Len(recs) - 1)

\* A record that is a well-formed event of one of the four known types.
WellFormed(r) == r.k = "event" /\ r.type \in {"thought", "token", "done", "error"}

\* The update a record stands for: one for a thought, token or done event.
RecUpdate(r) ==
    IF r.k # "event" THEN <<>>
    ELSE CASE r.type = "thought" -> <<Chunk(Some(<<r.data>>), None, None)>>
           [] r.type = "token"   -> <<Chunk(None, Some(r.data), None)>>
           [] r.type = "done"    -> <<Chunk(None, None, Some(r.data))>>
           [] OTHER              -> <<>>

RECURSIVE ExpectedUpdates(_)
ExpectedUpdates(recs) ==
    IF recs = <<>> THEN <<>>
    ELSE RecUpdate(Head(recs)) \o ExpectedUpdates(Tail(recs))

\* Number of records of the body whose delimiter lies within its first
\* `delivered` characters.
NComplete(recs, term, delivered) ==
    Cardinality({i \in 1..Len(recs) :
                    /\ (i < Len(recs) \/ term)
                    /\ Len(Wire(SubSeq(recs, 1, i), TRUE)) <= delivered})

Delivered(m) == Len(Wire(req[m].recs, req[m].term)) - Len(req[m].wire)

\* Content, reasoning steps and sources that a sequence of updates adds up to.
RECURSIVE ChunkContent(_)
ChunkContent(chunks) ==
    IF chunks = <<>> THEN <<>>
    ELSE (IF IsSome(Head(chunks).content) THEN Head(chunks).content[1] ELSE <<>>)
         \o ChunkContent(Tail(chunks))

RECURSIVE ChunkThoughts(_)
ChunkThoughts(chunks) ==
    IF chunks = <<>> THEN <<>>
    ELSE (IF IsSome(Head(chunks).thoughts) THEN Head(chunks).thoughts[1] ELSE <<>>)
         \o ChunkThoughts(Tail(chunks))

RECURSIVE ChunkSources(_)
ChunkSources(chunks) ==
    IF chunks = <<>> THEN None
    ELSE LET later == ChunkSources(Tail(chunks))
         IN  IF IsSome(later) THEN later ELSE Head(chunks).sources

\* Protocol of the event stream (server side): zero or more thought and
\* token events, then exactly one terminal event, every record terminated.
Conformant(recs, term) ==
    /\ term
    /\ Len(recs) >= 1
    /\ \A i \in 1..Len(recs) : recs[i].k = "event"
    /\ recs[Len(recs)].type \in {"done", "error"}
    /\ \A i \in 1..(Len(recs) - 1) : recs[i].type \in {"thought", "token"}

C8_ChunkingIndependent ==
    \A m \in Modes :
        Streaming(m) =>
            req[m].applied =
                ExpectedUpdates(SubSeq(req[m].recs, 1,
                                       NComplete(req[m].recs, req[m].term, Delivered(m))))

\* A read ended between the two newline characters of the second delimiter,
\* after the first record had been delivered.
C8_Witness ==
    /\ req["chat"].pc = "read"
    /\ Len(req["chat"].applied) = 1
    /\ req["chat"].buffer # <<>>
    /\ req["chat"].buffer[Len(req["chat"].buffer)] = NL
    /\ req["chat"].wire = <<NL>>

IsPrefix(p, q) == Len(p) <= Len(q) /\ p = SubSeq(q, 1, Len(p))

\* C9. In-order application: the updates applied so far are an initial
\* segment of the updates of the stream's records in stream order, and the
\* Turn holds their payloads in that order (token text in content,
\* thought text in the reasoning steps).
C9_InOrder ==
    \A m \in Modes :
        Streaming(m) =>
            LET all == ExpectedUpdates(Terminated(req[m].recs, req[m].term))
            IN  /\ IsPrefix(req[m].applied, all)
                /\ lastTurn(m).content = ChunkContent(req[m].applied)
                /\ lastTurn(m).thoughts = Some(ChunkThoughts(req[m].applied))

C9_Witness ==
    /\ Streaming("chat")
    /\ req["chat"].recs = <<Event("thought", <<"b">>), Event("token", <<"c">>)>>
    /\ Len(req["chat"].applied) = 2
    /\ lastTurn("chat").content = <<"c">>
    /\ lastTurn("chat").thoughts = Some(<<(<<"b">>)>>)

RECURSIVE EncodeAll(_)
EncodeAll(recs) ==
    IF recs = <<>> THEN <<>> ELSE <<Encode(Head(recs))>> \o EncodeAll(Tail(recs))

\* C10. Malformed record: once the whole body has been read, the Turn is
\* what the same stream without its malformed records (invalid JSON,
\* unknown type, no data prefix) produces: a malformed record changes
\* nothing and every valid record after it is still applied; the request
\* has not failed.
C10_MalformedDropped ==
    \A m \in Modes :
        (Streaming(m) /\ req[m].wire = <<>>) =>
            LET valid == SelectSeq(Terminated(req[m].recs, req[m].term), WellFormed)
                start == <<Turn("assistant", <<>>, Some(<<>>), None)>>
            IN  /\ lastTurn(m) = applyAll(start, forLines(EncodeAll(valid)))[1]
                /\ req[m].error = None

C10_Witness ==
    /\ Streaming("chat")
    /\ req["chat"].wire = <<>>
    /\ req["chat"].term
    /\ Len(req["chat"].recs) = 2
    /\ req["chat"].recs[1].k = "badjson"
    /\ req["chat"].recs[2] = Event("token", <<"c">>)
    /\ lastTurn("chat").content = <<"c">>

\* C1. Mode isolation: in each mode, the last Turn is exactly what the
\* updates and the error notice of that mode's own request add up to,
\* whatever the other mode's request delivered and whichever mode was active
\* when they arrived; a mode without a request has no Turns.
C1_ModeIsolation ==
    \A m \in Modes :
        IF req[m].pc = "idle" THEN histories[m] = <<>>
        ELSE lastTurn(m) =
                 Turn("assistant",
                      ChunkContent(req[m].applied)
                      \o (IF IsSome(req[m].error)
                          THEN errorNotice(req[m].error[1]) ELSE <<>>),
                      Some(ChunkThoughts(req[m].applied)),
                      ChunkSources(req[m].applied))

\* Both requests in flight, both have delivered events, and the active mode
\* is no longer the one of the later (lesson) request.
C1_Witness ==
    /\ loadingStates["chat"] /\ loadingStates["lesson"]
    /\ mode = "chat"
    /\ Len(req["chat"].applied) = 3
    /\ Len(req["lesson"].applied) = 1
    /\ lastTurn("chat").sources = Some(<<"S">>)
    /\ lastTurn("lesson").sources = None

\* ------------------------------------------------- failures and isolation
\* The request of mode m has failed fatally: its api call threw (fetch
\* rejected, no body, connection lost), or the server answered with an
\* error event.
FailedFatally(m) == IsSome(req[m].error) \/ DataOf(req[m].observed, "error") # <<>>

\* The request of mode m is over: the api call returned or threw.
Over(m) == req[m].pc \in {"ended", "failed"}

EndsWith(s, t) == Len(s) >= Len(t) /\ SubSeq(s, Len(s) - Len(t) + 1, Len(s)) = t

\* The causes an error notice can name.
Causes == {<<"F">>, <<"B">>, <<"R">>, <<"x">>}

\* C11. Failure is surfaced and recoverable: when a request that failed
\* fatally (fetch rejected, no body, connection lost, or an error answer of
\* the server) is over, the content of the mode's last Turn ends with an
\* error notice and the mode's loading flag is cleared, so that the next
\* submit in that mode passes the guard.
C11_FailureSurfaced ==
    \A m \in Modes :
        (Over(m) /\ FailedFatally(m)) =>
            /\ \E e \in Causes : EndsWith(lastTurn(m).content, errorNotice(e))
            /\ ~loadingStates[m]

\* The state of a mode that belongs to it alone.
OwnState(m) == <<histories[m], inputs[m], grades[m], loadingStates[m]>>

\* C12. Independent per-mode state: a submit in a mode is possible whenever
\* that mode is active, its input is not blank and its own loading flag is
\* clear, whatever the other mode's request is doing; and every step of a
\* mode's request (submit, event application, error notice, finish) leaves
\* the other mode's turn list, input buffer, grade and loading flag as they
\* were.
C12_IndependentModes ==
    /\ [](\A m \in Modes :
             (/\ mode = m
              /\ trim(inputs[m]) # <<>>
              /\ ~loadingStates[m]
              /\ submits < MaxSubmits) => ENABLED handleSubmit(m))
    /\ [][\A m \in Modes : \A o \in Modes \ {m} :
             (req'[m] # req[m]) => (OwnState(o)' = OwnState(o))]_vars

\* A lesson submit has been accepted while the chat request was reading its
\* stream.
C12_Witness ==
    /\ req["chat"].pc = "read"
    /\ Len(req["chat"].applied) = 1
    /\ req["lesson"].pc = "fetch"
    /\ loadingStates["chat"] /\ loadingStates["lesson"]

\* What the user can do on the page.
UserAction ==
    \/ \E m \in Modes : setMode(m)
    \/ \E v \in InputTexts : setInput(v)
    \/ \E g \in GRADES : setGrade(g)
    \/ \E m \in Modes : handleSubmit(m)

\* The request of mode m is in flight.
InFlight(m) == req[m].pc \in {"fetch", "read"}

\* C13. Client-initiated abort: whenever a request is in flight, the client
\* has an action that aborts it: after the action the request is no longer
\* in flight (no further event of its stream is applied) and the turn lists
\* are what they were.
C13_AbortAvailable ==
    \A m \in Modes :
        InFlight(m) =>
            ENABLED (/\ UserAction
                     /\ ~InFlight(m)'
                     /\ histories' = histories)

\* ------------------------------------------------------ citation groups
\* Position of the first citation of sources whose source is key.
RECURSIVE FirstCited(_, _, _)
FirstCited(sources, key, i) ==
    IF i > Len(sources) THEN 0
    ELSE IF citation(sources[i]).source = key THEN i
    ELSE FirstCited(sources, key, i + 1)

\* C14. Citation grouping: when a Turn's citations are presented, each
\* distinct source appears as exactly one group, in order of first
\* occurrence, and the page set of a group is the set of the page values of
\* all citations with that source.
C14_CitationGroups ==
    \A m \in Modes :
        (Streaming(m) /\ IsSome(lastTurn(m).sources) /\ lastTurn(m).sources[1] # <<>>) =>
            LET sources == lastTurn(m).sources[1]
                groups == groupedSources(sources)
                names == {citation(sources[i]).source : i \in 1..Len(sources)}
            IN  /\ {groups[i].source : i \in DOMAIN groups} = names
                /\ Len(groups) = Cardinality(names)
                /\ \A i, j \in DOMAIN groups :
                      i < j => FirstCited(sources, groups[i].source, 1)
                               < FirstCited(sources, groups[j].source, 1)
                /\ \A i \in DOMAIN groups :
                      groups[i].pages =
                          {citation(sources[k]).page[1] :
                              k \in {n \in 1..Len(sources) :
                                        /\ citation(sources[n]).source = groups[i].source
                                        /\ IsSome(citation(sources[n]).page)}}

\* ------------------------------------------------------------ the server
\* The orchestrator has prepared the context of the request of mode m.
Prepared(m) == server[m].stage \notin {"IDLE", "RECEIVED"}

IsSuffix(w, h) == Len(w) <= Len(h) /\ w = SubSeq(h, Len(h) - Len(w) + 1, Len(h))

\* The history the chat request carries, and the window made of it.
SentHistory == req["chat"].body[1].history

PassedWindow == server["chat"].window

Count(log, x) == Cardinality({i \in 1..Len(log) : log[i] = x})

Logged(m, x) == \E i \in 1..Len(server[m].log) : server[m].log[i] = x

\* C16. Rewrite fail-open: when the lite rewrite call ended with an error or
\* a timeout, the query of the request is the raw input verbatim, the
\* rewrite was attempted once and is not attempted again, and the request
\* has gone on to the prepared context: it fails, if at all, in retrieval or
\* generation.
C16_RewriteFailOpen ==
    \A m \in Modes :
        /\ server[m].attempts <= 1
        /\ Count(server[m].log, "rewrite") = server[m].attempts
        /\ server[m].rewrite \in {"error", "timeout"} =>
               /\ server[m].query = rawQuery(m, req[m].body[1])
               /\ server[m].attempts = 1
               /\ Logged(m, "context")
               /\ server[m].stage # "REWRITING"
               /\ server[m].stage = "FAILED" =>
                      server[m].failedAt \in {"RETRIEVING", "GENERATING"}

\* A request whose rewrite timed out has completed with the raw query.
C16_Witness ==
    /\ server["chat"].rewrite = "timeout"
    /\ server["chat"].stage = "COMPLETED"
    /\ server["chat"].query = <<"q">>
    /\ server["chat"].passages = <<"P2">>

\* Rank of the first hit that refers to parent p; 0 when none.
RECURSIVE FirstHit(_, _, _)
FirstHit(hits, p, i) ==
    IF i > Len(hits) THEN 0
    ELSE IF ParentOf(hits[i]) = p THEN i
    ELSE FirstHit(hits, p, i + 1)

\* C17. Retrieval de-duplication: the passages returned for a ranked hit
\* list are the resolvable parents of its hits, each exactly once, ordered by
\* the rank of the first hit that refers to them, and never more than there
\* are hits.
C17_RetrievalDedup ==
    \A m \in Modes :
        Logged(m, "retrieved") =>
            LET hits == server[m].hits
                passages == server[m].passages
            IN  /\ {passages[i] : i \in DOMAIN passages} =
                       {p \in {ParentOf(hits[j]) : j \in DOMAIN hits} : Resolvable(p)}
                /\ \A i, j \in DOMAIN passages :
                       i < j => /\ passages[i] # passages[j]
                                /\ FirstHit(hits, passages[i], 1)
                                   < FirstHit(hits, passages[j], 1)
                /\ Len(passages) <= Len(hits)

\* The hits c2, c1, c3: the second reference to P1 is dropped.
C17_Witness ==
    /\ server["chat"].stage = "RETRIEVED"
    /\ server["chat"].hits = <<"c2", "c1", "c3">>
    /\ server["chat"].passages = <<"P2", "P1">>

\* C18. Strict stage order: in the log of a request, retrieval starts only
\* after the context was prepared (the rewrite resolved, fell back or was not
\* needed), generation starts only after retrieval completed, and every
\* thought or token event comes after the start of generation; the events
\* of the stream are exactly the ones logged.
C18_StageOrder ==
    \A m \in Modes :
        LET log == server[m].log
            Before(x, i) == \E j \in 1..(i - 1) : log[j] = x
        IN  /\ \A i \in 1..Len(log) :
                  /\ log[i] = "retrieval" => Before("context", i)
                  /\ log[i] = "generation" => Before("retrieved", i)
                  /\ log[i] = "event" => Before("generation", i)
            /\ server[m].stage = "REWRITING" => ~Logged(m, "retrieval")
            /\ Count(log, "event") =
                   Len(DataOf(server[m].events, "thought"))
                   + Len(DataOf(server[m].events, "token"))

\* A request that went through the rewrite, retrieval and two events.
C18_Witness ==
    /\ server["chat"].stage = "COMPLETED"
    /\ server["chat"].log = <<"rewrite", "context", "retrieval", "retrieved",
                             "generation", "event", "event">>

\* C19. Empty retrieval is not an error: when retrieval returned no
\* passages, the request has not failed in retrieval; when it completes, its
\* last event is a done event with an empty sources list; and once the
\* client has applied that event, the sources of the Turn are the empty
\* list.
C19_EmptyRetrieval ==
    \A m \in Modes :
        (Logged(m, "retrieved") /\ server[m].passages = <<>>) =>
            /\ server[m].failedAt # "RETRIEVING"
            /\ server[m].stage = "COMPLETED" =>
                   /\ server[m].events[Len(server[m].events)] = Event("done", <<>>)
                   /\ DataOf(req[m].observed, "done") # <<>> =>
                          lastTurn(m).sources = Some(<<>>)

\* The only hit does not resolve; the request completed and the client has
\* read the stream to its end.
C19_Witness ==
    /\ server["chat"].hits = <<"c4">>
    /\ server["chat"].passages = <<>>
    /\ server["chat"].stage = "COMPLETED"
    /\ req["chat"].pc = "ended"
    /\ lastTurn("chat").content = <<"a">>
    /\ lastTurn("chat").sources = Some(<<>>)

\* C20. Lesson mode uses no conversation context: the body of a lesson
\* request consists of the topic (the text of the user Turn) and the grade of
\* the lesson mode and nothing else, so no history of either mode; and the
\* orchestrator prepares its context without a window and without a rewrite
\* attempt, and retrieves with the topic.
C20_LessonNoContext ==
    req["lesson"].pc # "idle" =>
        LET body == req["lesson"].body[1]
            s == server["lesson"]
        IN  /\ DOMAIN body = {"topic", "grade"}
            /\ body.topic = histories["lesson"][Len(histories["lesson"]) - 1].content
            /\ body.grade = grades["lesson"]
            /\ s.window = <<>>
            /\ s.attempts = 0
            /\ ~Logged("lesson", "rewrite")
            /\ Logged("lesson", "retrieval") => s.query = body.topic

\* A lesson request for the primary grade has completed and been read.
C20_Witness ==
    /\ req["lesson"].pc = "ended"
    /\ req["lesson"].body[1].grade = "primary"
    /\ server["lesson"].stage = "COMPLETED"
    /\ server["lesson"].log = <<"context", "retrieval", "retrieved", "generation", "event">>

\* C21. Unauthorized short-circuit: a request whose access token is absent
\* or does not match is answered as unauthorized before any pipeline stage
\* (context, retrieval, generation) runs, and no partial Turn state is
\* created for it: its mode's turn list is what it was before the request.
C21_UnauthorizedShortCircuit ==
    (req["chat"].pc # "idle" /\ ~authorized(req["chat"].headers)) =>
        /\ server["chat"].stage \in {"IDLE", "UNAUTHORIZED"}
        /\ server["chat"].log = <<>>
        /\ histories["chat"] = <<>>

\* C30. Auth gate: the chat interface is shown only after some verification
\* call for a password returned OK in this page session; a rejected or
\* failed verification (a network error included) never unlocks it; a
\* password is put into storage only after it was verified (before that,
\* storage holds at most what the page found there on load); and a stored
\* password whose verification on load fails is removed from storage.
C30_AuthGate ==
    /\ [](auth.isAuthenticated => auth.verified # {})
    /\ [](IsSome(localStorage) =>
            \/ localStorage[1] \in auth.verified
            \/ (localStorage = auth.saved /\ ~auth.onLoadFailed))
    /\ [][/\ (auth'.isAuthenticated /\ ~auth.isAuthenticated) =>
                auth'.verified # auth.verified
          /\ (localStorage' # localStorage /\ IsSome(localStorage')) =>
                localStorage'[1] \in auth'.verified
          /\ (auth'.onLoadFailed /\ ~auth.onLoadFailed) =>
                localStorage' = None]_vars

\* A wrong stored password was removed on load, a later login with the right
\* one unlocked the gate and stored it, and a submit was made behind the gate.
C30_Witness ==
    /\ auth.saved = Some("w")
    /\ auth.onLoadFailed
    /\ auth.isAuthenticated
    /\ auth.verified = {ValidPassword}
    /\ localStorage = Some(ValidPassword)
    /\ histories["chat"] # <<>>

\* A text that consists of blanks only, the empty text included.
Blank(s) == \A i \in 1..Len(s) : s[i] = " "

\* C22. Submit guard: a submit whose input is empty after trimming, or that
\* arrives while the same mode's loading flag is set, changes no state and
\* sends no request (the handler has no step then); consequently a request
\* is started only in a mode that has none in flight, so a mode never has
\* two requests in flight at once, also when two submits are issued back to
\* back.
C22_SubmitGuard ==
    /\ [](\A m \in Modes :
            (Blank(inputs[m]) \/ loadingStates[m]) => ~ENABLED handleSubmit(m))
    /\ [](\A m \in Modes : InFlight(m) => loadingStates[m])
    /\ [][\A m \in Modes :
            (req'[m] # req[m] /\ req'[m].pc = "fetch") =>
                /\ mode = m
                /\ ~Blank(inputs[m])
                /\ ~loadingStates[m]
                /\ ~InFlight(m)
                /\ submits' = submits + 1]_vars

\* A second submit was typed in while the first request of the same mode is
\* in flight, and the other mode holds a blank input.
C22_Witness ==
    /\ mode = "chat"
    /\ InFlight("chat")
    /\ loadingStates["chat"]
    /\ inputs["chat"] = <<" ", "q">>
    /\ inputs["lesson"] = <<" ">>
    /\ submits = 1

\* C23. Earlier Turns are never touched: every step that is not a submit
\* (the application of stream events, an error notice) changes at most the
\* last Turn of a list; all Turns before it are identical before and after,
\* and the length of the list does not change.
C23_EarlierTurnsUntouched ==
    [][\A m \in Modes :
        (submits' = submits /\ histories'[m] # histories[m]) =>
            /\ Len(histories'[m]) = Len(histories[m])
            /\ \A i \in 1..(Len(histories[m]) - 1) : histories'[m][i] = histories[m][i]
            /\ lastTurn(m)' # lastTurn(m)]_vars

\* The second request of chat mode streamed into its Turn and then failed
\* at a read, with a notice, behind the finished exchange of the first request.
C23_Witness ==
    /\ Len(histories["chat"]) = 4
    /\ histories["chat"][2].content = <<"a">>
    /\ histories["chat"][2].sources = Some(<<"S">>)
    /\ req["chat"].pc = "failed"
    /\ EndsWith(lastTurn("chat").content, errorNotice(<<"R">>))
    /\ Len(lastTurn("chat").content) > Len(errorNotice(<<"R">>))

\* C24. Turn-list shape: every accepted submit appends exactly one user Turn
\* with the trimmed input (not empty, no blank at either end) followed by one
\* assistant Turn with empty content and no reasoning steps; in every
\* reachable state each mode's turn list has even length and alternates
\* user, assistant starting with user.
C24_TurnListShape ==
    /\ [](\A m \in Modes :
            /\ Len(histories[m]) % 2 = 0
            /\ \A i \in 1..Len(histories[m]) :
                 histories[m][i].role = IF i % 2 = 1 THEN "user" ELSE "assistant")
    /\ [][\A m \in Modes :
            (req'[m] # req[m] /\ req'[m].pc = "fetch") =>
                LET n == Len(histories[m])
                    user == histories'[m][n + 1]
                IN  /\ Len(histories'[m]) = n + 2
                    /\ SubSeq(histories'[m], 1, n) = histories[m]
                    /\ user = Turn("user", trim(inputs[m]), None, None)
                    /\ user.content # <<>>
                    /\ user.content[1] # " "
                    /\ user.content[Len(user.content)] # " "
                    /\ histories'[m][n + 2] = Turn("assistant", <<>>, Some(<<>>), None)]_vars

\* The second submit of lesson mode was accepted after its first request
\* had failed with a notice: two exchanges, the second one just appended.
C24_Witness ==
    /\ Len(histories["lesson"]) = 4
    /\ req["lesson"].pc = "fetch"
    /\ EndsWith(histories["lesson"][2].content, errorNotice(<<"F">>))
    /\ histories["lesson"][3] = Turn("user", <<"q">>, None, None)
    /\ histories["lesson"][4] = Turn("assistant", <<>>, Some(<<>>), None)

\* C25. Loading flag lifecycle: a mode's loading flag is set by an accepted
\* submit and is cleared when that request's stream handling returns or
\* throws, so it is set exactly while the mode's request is in flight (never
\* left set with no request in flight); and when the transport does not
\* hang, so that the stream ends by completion or by failure, a set flag
\* eventually becomes false.
C25_LoadingLifecycle ==
    /\ [](\A m \in Modes : loadingStates[m] <=> InFlight(m))
    /\ \A m \in Modes : loadingStates[m] ~> (~loadingStates[m] /\ Over(m))

\* The request of chat mode has ended by completion and that of lesson mode
\* by a failed read; both flags are clear again.
C25_Witness ==
    /\ req["chat"].pc = "ended"
    /\ req["lesson"].pc = "failed"
    /\ req["lesson"].error = Some(<<"R">>)
    /\ ~loadingStates["chat"]
    /\ ~loadingStates["lesson"]
    /\ submits = 2

\* C26. History sent with a chat request: the history in the request body
\* equals the chat mode's Turns as they were before the submit (all Turns of
\* the chat list but the two the submit appended) followed by the new user
\* Turn; it never contains the empty assistant placeholder of the current
\* request and never contains a lesson-mode Turn.
C26_HistorySent ==
    req["chat"].pc # "idle" =>
        LET body == req["chat"].body[1]
            n == Len(histories["chat"])
        IN  /\ DOMAIN body = {"message", "history"}
            /\ Len(body.history) = n - 1
            /\ SubSeq(body.history, 1, n - 2) = SubSeq(histories["chat"], 1, n - 2)
            /\ body.history[n - 1] = Turn("user", body.message, None, None)
            /\ body.history[n - 1] = histories["chat"][n - 1]
            /\ \A i \in 1..(n - 1) : body.history[i].role = IF i % 2 = 1 THEN "user" ELSE "assistant"

\* The second chat request is in flight with the first exchange and the new
\* user Turn as its history, and its placeholder has received a token.
C26_Witness ==
    /\ req["chat"].pc = "read"
    /\ Len(req["chat"].body[1].history) = 3
    /\ req["chat"].body[1].history[2].content = <<"a">>
    /\ req["chat"].body[1].history[2].sources = Some(<<"S">>)
    /\ Len(histories["chat"]) = 4
    /\ lastTurn("chat").content = <<"a">>

\* C27. A record is applied only after its delimiter arrived: a step of the
\* reader hands updates to the merger only when the text it received
\* completes the blank line after a record, and never more updates than the
\* delimited records stand for; the buffer never holds a delimiter; and the
\* text left in the buffer when the transport signals end-of-stream (the
\* last record of a body that does not end with a delimiter) stays there and
\* is never applied to the Turn.
C27_DelimiterFirst ==
    /\ [](Streaming("chat") =>
            LET r == req["chat"]
            IN  /\ Len(r.applied) <= NComplete(r.recs, r.term, Delivered("chat"))
                /\ indexOf(r.buffer, 1) = 0
                /\ (r.pc = "ended" /\ ~r.term /\ r.recs # <<>>) =>
                      /\ r.buffer = Encode(r.recs[Len(r.recs)])
                      /\ r.applied = ExpectedUpdates(SubSeq(r.recs, 1, Len(r.recs) - 1)))
    /\ [][(req'["chat"].applied # req["chat"].applied \/ histories' # histories) =>
            \/ req["chat"].pc = "idle"
            \/ /\ req["chat"].pc = "read"
               /\ req'["chat"].pc = "read"
               /\ NComplete(req["chat"].recs, req["chat"].term, Delivered("chat")')
                    > NComplete(req["chat"].recs, req["chat"].term, Delivered("chat"))]_vars

\* The body ended after a token record without its delimiter: the first
\* record was applied, the second is still in the buffer.
C27_Witness ==
    /\ req["chat"].pc = "ended"
    /\ ~req["chat"].term
    /\ req["chat"].recs = <<Event("thought", <<"b">>), Event("token", <<"c">>)>>
    /\ req["chat"].buffer = Encode(Event("token", <<"c">>))
    /\ lastTurn("chat").content = <<>>
    /\ lastTurn("chat").thoughts = Some(<<(<<"b">>)>>)

\* C28. Reducer frame: a step of the reader changes the content of the Turn
\* only if it parsed a token event, its reasoning steps only if it parsed a
\* thought event and its sources only if it parsed a done event; so a token
\* event leaves reasoning steps and sources unchanged, a thought event
\* leaves content and sources unchanged, a done event leaves content and
\* reasoning steps unchanged; the role is never changed by any event.
C28_ReducerFrame ==
    [][(req["chat"].pc = "read" /\ req'["chat"].pc = "read") =>
          LET new == From(req'["chat"].observed, Len(req["chat"].observed) + 1)
              old == lastTurn("chat")
              upd == lastTurn("chat")'
          IN  /\ upd.role = old.role
              /\ upd.role = "assistant"
              /\ DataOf(new, "token") = <<>> => upd.content = old.content
              /\ DataOf(new, "thought") = <<>> => upd.thoughts = old.thoughts
              /\ DataOf(new, "done") = <<>> => upd.sources = old.sources]_vars

\* A token event was applied in a read of its own after a done event: the
\* sources of the done event are still there.
C28_Witness ==
    /\ req["chat"].pc = "read"
    /\ req["chat"].recs = <<Event("done", <<"S">>), Event("token", <<"c">>)>>
    /\ Len(req["chat"].observed) = 2
    /\ req["chat"].wire = <<>>
    /\ lastTurn("chat") = Turn("assistant", <<"c">>, Some(<<>>), Some(<<"S">>))

\* A call of sendMessage is over and its fetch had resolved with a response.
Answered == sent.pc = "done" /\ sent.status \in Statuses

\* Body texts that are JSON, and those among them with an error field.
JsonTexts == {"{error:E}", "{error:}", "{reply:R}", "null"}

ErrorField(text) == IF text = "{error:E}" THEN "E" ELSE ""

\* C29 as stated. Non-streaming send: sendMessage either returns the parsed
\* response, or, when the HTTP status is not OK, throws an error that names
\* the status and carries the server's error field when the body is JSON
\* with one and the raw body text otherwise; it never returns a response
\* for a non-OK status.
C29_SendMessage ==
    Answered =>
        LET result == sent.result[1]
            carried == IF sent.text \in {"{error:E}", "{error:}"}
                       THEN ErrorField(sent.text)
                       ELSE sent.text
        IN  IF ok(sent.status)
            THEN result.k = "returns"
            ELSE /\ result.k = "throws"
                 /\ result.error = <<"API Error", sent.status, carried>>

\* C29, amended. sendMessage returns the parsed body exactly when the status
\* is OK and the body can be read and is JSON; with an OK status and a body
\* that cannot be read or parsed it throws the parse error, and when the
\* fetch rejects it throws what the fetch threw.  When the status is not OK
\* it never returns: it throws an error that names the status and carries
\* the server's error field when the body is a JSON object with a non-empty
\* one, the text "No error details" when the body cannot be read, and the
\* raw body text otherwise (not JSON, JSON null, no error field or an empty
\* one).  The request carries the stored password and the two arguments.
C29_SendMessageOutcome ==
    /\ sent.pc # "idle" =>
          /\ sent.headers = getAuthHeader(localStorage)
          /\ DOMAIN sent.body[1] = {"message", "history"}
    /\ (sent.pc = "done" /\ ~Answered) =>
          sent.result = Some([k |-> "throws", error |-> <<"fetch">>])
    /\ Answered =>
          LET result == sent.result[1]
              carried == IF ~sent.readable THEN "No error details"
                         ELSE IF sent.text = "{error:E}" THEN "E"
                         ELSE sent.text
          IN  IF ok(sent.status)
              THEN IF sent.readable /\ sent.text \in JsonTexts
                   THEN result.k = "returns" /\ result.value.ok
                   ELSE result = [k |-> "throws", error |-> <<"res.json">>]
              ELSE /\ result.k = "throws"
                   /\ result.error = <<"API Error", sent.status, carried>>

\* A call was answered with status 401 and a JSON body with an error field:
\* it threw the error that names 401 and carries the field.
C29_Witness ==
    /\ Answered
    /\ sent.status = 401
    /\ sent.text = "{error:E}"
    /\ sent.readable
    /\ sent.result = Some([k |-> "throws", error |-> <<"API Error", 401, "E">>])
    /\ sent.body[1].history # <<>>

====
